---------------------------- MODULE Spec2Model ----------------------------
(***************************************************************************)
(* Command execution core of kestrel-lang (src/kestrel/codegen/commands.py)*)
(* as a state machine: a session owns a store of named views, a symbol     *)
(* table of VarStructs and a debug flag; each command executor is one      *)
(* action that runs the whole handler, its decorators included.            *)
(*                                                                         *)
(* An executor is a function from an execution context to an execution     *)
(* context.  The context carries the store (views, types), the log of the  *)
(* calls issued to the store, the datasource manager and the analytics     *)
(* manager (ops), the exception in flight (err, "" when none) and the      *)
(* value the last helper returned (val).  Once err is set every later call *)
(* is skipped, which is how a Python exception unwinds the handler.        *)
(***************************************************************************)
EXTENDS Naturals, Sequences, FiniteSets, TLC

VARIABLES views, types, symtable, debug_mode, config, ops, last, nstmts,
          calls, prev, data

vars == <<views, types, symtable, debug_mode, config, ops, last, nstmts,
          calls, prev, data>>

(***************************************************************************)
(* Bounds of the model.                                                    *)
(***************************************************************************)
\* statements executed in one session
MaxStmts == 2
\* rows a view can hold
MaxRows == 1
\* what a collaborator answers: no row, or as many as a view can hold
RowCounts == {0, MaxRows}

(***************************************************************************)
(* Names.  Variable names are identifiers with underscores allowed, so     *)
(* "x_local" is as good a variable name as "x".                            *)
(***************************************************************************)
VarNames == {"x", "x_local"}
EntityTypes == {"process", "file"}
DataSources == {"ds"}
None == "None"
Unbound == [entity_table |-> None, type |-> "<unbound>", length |-> 0,
            records_count |-> 0, data_source |-> None]
NoVar == [entity_table |-> None, type |-> "<novar>", length |-> 0,
          records_count |-> 0, data_source |-> None]
EmptyVar == [entity_table |-> None, type |-> None, length |-> 0,
             records_count |-> 0, data_source |-> None]

Errors == {"VariableNotExist", "EmptyInputVariable", "NonUniformEntityType",
           "InvalidAttribute", "KestrelInternalError", "StoreError",
           "DataSourceError", "AnalyticsError"}

\* which exception a failing call of an external collaborator raises
ErrOf(op) ==
  IF op = "query" THEN "DataSourceError"
  ELSE IF op = "execute" THEN "AnalyticsError"
  ELSE "StoreError"

(***************************************************************************)
(* The execution context and the calls to the external collaborators.      *)
(***************************************************************************)
\* what a command without a display returns as its display
NoDisplay == [kind |-> None, view |-> None, rows |-> 0]

Ctx(failAt) ==
  [views |-> views, types |-> types, ops |-> <<>>, err |-> "", n |-> 0,
   failAt |-> failAt, val |-> None, ret |-> NoVar, tuple |-> FALSE,
   calls |-> <<>>, display |-> NoDisplay]

Raise(c, e) == IF c.err # "" THEN c ELSE [c EXCEPT !.err = e]

SetVal(c, v) == IF c.err # "" THEN c ELSE [c EXCEPT !.val = v]

Return(c, var) == IF c.err # "" THEN c ELSE [c EXCEPT !.ret = var, !.tuple = TRUE]

Show(c, display) == IF c.err # "" THEN c ELSE [c EXCEPT !.display = display]

\* The calls of the helpers of this package (the pattern compiler, the
\* prefetch) are logged in calls: which helper, at its call or its return,
\* its argument, the value it answers and, for a view it made, its rows.
Call(c, fn, at, arg, val, rows) ==
  IF c.err # "" THEN c
  ELSE [c EXCEPT !.calls = Append(@, [fn |-> fn, at |-> at, arg |-> arg,
                                       val |-> val, rows |-> rows])]

\* One call of a collaborator: logged in ops; it raises when it is the
\* failAt-th call of the statement or when its arguments are unusable
\* (bad), and otherwise leaves the store as (newViews, newTypes).
Issue(c, op, view, args, bad, newViews, newTypes) ==
  IF c.err # "" THEN c
  ELSE IF c.n + 1 = c.failAt \/ bad
    THEN [c EXCEPT !.n = @ + 1, !.err = ErrOf(op),
            !.ops = Append(@, [op |-> op, view |-> view, args |-> args,
                                ok |-> FALSE])]
    ELSE [c EXCEPT !.n = @ + 1, !.views = newViews, !.types = newTypes,
            !.ops = Append(@, [op |-> op, view |-> view, args |-> args,
                                ok |-> TRUE])]

Put(vs, name, type, rows) == (name :> [type |-> type, rows |-> rows]) @@ vs

Drop(vs, name) == [w \in DOMAIN vs \ {name} |-> vs[w]]

Exists(vs, name) == name \in DOMAIN vs

RowsOf(vs, name) == IF Exists(vs, name) THEN vs[name].rows ELSE 0

Min(a, b) == IF a < b THEN a ELSE b

\* store.extract(view, type, query_id, pattern): (re)creates view
extract(c, view, type, query_id, pattern, rows) ==
  Issue(c, "extract", view, <<type, query_id, pattern>>,
        query_id = None /\ pattern = None,
        Put(c.views, view, type, rows), c.types)

\* store.merge(view, [views]): creates view as the union of the inputs
store_merge(c, view, inputs) ==
  Issue(c, "merge", view, inputs,
        \E i \in 1..Len(inputs) : ~Exists(c.views, inputs[i]),
        Put(c.views, view,
            IF inputs # <<>> /\ Exists(c.views, inputs[1])
              THEN c.views[inputs[1]].type ELSE None,
            IF \E i \in 1..Len(inputs) : RowsOf(c.views, inputs[i]) > 0
              THEN MaxRows ELSE 0),
        c.types)

\* store.filter(view, type, src_view, pattern): view = rows of src matching
store_filter(c, view, type, src, pattern, rows) ==
  Issue(c, "filter", view, <<type, src, pattern>>,
        ~Exists(c.views, src),
        Put(c.views, view, type, Min(rows, RowsOf(c.views, src))), c.types)

\* store.rename_view(old, new): new replaces any earlier view of that name
rename_view(c, old, new) ==
  Issue(c, "rename_view", new, <<old>>,
        ~Exists(c.views, old),
        IF Exists(c.views, old)
          THEN Drop(Put(c.views, new, c.views[old].type, c.views[old].rows),
                    old)
          ELSE c.views,
        c.types)

\* store.remove_view(view): idempotent
remove_view(c, view) ==
  Issue(c, "remove_view", view, <<>>, FALSE, Drop(c.views, view), c.types)

\* store.lookup(view, attrs, limit): reads rows
store_lookup(c, view) ==
  Issue(c, "lookup", view, <<>>, ~Exists(c.views, view), c.views, c.types)

\* store.columns(view): reads the header
store_columns(c, view) ==
  Issue(c, "columns", view, <<>>, ~Exists(c.views, view), c.views, c.types)

\* store.join(view, l, l_path, r, r_path)
store_join(c, view, l, r, rows) ==
  Issue(c, "join", view, <<l, r>>,
        ~Exists(c.views, l) \/ ~Exists(c.views, r),
        Put(c.views, view,
            IF Exists(c.views, l) THEN c.views[l].type ELSE None,
            Min(rows, Min(RowsOf(c.views, l), RowsOf(c.views, r)))),
        c.types)

\* store.assign_query(view, Query([Table(src), Group(paths), Aggregation]))
store_assign_query(c, view, src) ==
  Issue(c, "assign_query", view, <<src>>,
        ~Exists(c.views, src),
        Put(c.views, view,
            IF Exists(c.views, src) THEN c.views[src].type ELSE None,
            RowsOf(c.views, src)),
        c.types)

\* store.assign(view, src, op="sort", by, ascending)
store_assign(c, view, src) ==
  Issue(c, "assign", view, <<src>>,
        ~Exists(c.views, src),
        Put(c.views, view,
            IF Exists(c.views, src) THEN c.views[src].type ELSE None,
            RowsOf(c.views, src)),
        c.types)

\* data_source_manager.query(datasource, pattern, session_id)
ds_query(c, datasource, pattern) ==
  Issue(c, "query", None, <<datasource, pattern>>, datasource = None,
        c.views, c.types)

\* Response.load_to_store(store): loads the rows, which makes their types
\* known to store.types(); returns the query id
load_to_store(c, loaded) ==
  Issue(c, "load_to_store", None, <<>>, FALSE, c.views, c.types \cup loaded)

\* analytics_manager.execute(workflow, arg_vars, session_id, parameter)
analytics_execute(c, inputs) ==
  Issue(c, "execute", None, inputs, FALSE, c.views, c.types)

(***************************************************************************)
(* Statements, the symbol table and VarStruct.                             *)
(***************************************************************************)
\* A parsed statement: the fields the executors read.  source is the field
\* a GET carries ("datasource", "variablesource" or "none").
Stmt(command, output, inputs, type, source, datasource) ==
  [command |-> command, output |-> output, inputs |-> inputs, type |-> type,
   source |-> source, datasource |-> datasource]

\* kestrel.syntax.parser.get_all_input_var_names(stmt)
get_all_input_var_names(stmt) == stmt.inputs

IsBound(name) == symtable[name].type # "<unbound>"

BoundVars == {v \in VarNames : IsBound(v)}

\* kestrel.semantics.get_entity_table / get_entity_type
get_entity_table(name) == symtable[name].entity_table

get_entity_type(name) == symtable[name].type

\* the data source a new variable is associated with: the statement's own,
\* else the first one among its input variables
DataSourceOf(stmt) ==
  IF stmt.datasource # None THEN stmt.datasource
  ELSE LET ins == get_all_input_var_names(stmt)
           I == {i \in 1..Len(ins) : symtable[ins[i]].data_source # None}
       IN IF I = {} THEN None
          ELSE symtable[ins[CHOOSE i \in I : \A j \in I : i <= j]].data_source

\* kestrel.symboltable.new_var(store, entity_table, [], stmt, symtable):
\* the VarStruct of a view of the store, or the empty variable for None
new_var(c, entity_table, stmt) ==
  IF entity_table = None \/ ~Exists(c.views, entity_table) THEN EmptyVar
  ELSE [entity_table |-> entity_table,
        type |-> c.views[entity_table].type,
        length |-> c.views[entity_table].rows,
        records_count |-> c.views[entity_table].rows,
        data_source |-> DataSourceOf(stmt)]

\* a session that hands the statement to its executor unexamined
check_var_exists_skipped(stmt, c) == c

\* the session's pre-processing of a statement: every input name must be
\* bound, else VariableNotExist and the executor is not run
check_var_exists(stmt, c) ==
  IF \E i \in 1..Len(stmt.inputs) : ~IsBound(stmt.inputs[i])
    THEN Raise(c, "VariableNotExist")
    ELSE c

(***************************************************************************)
(* The decorators.                                                         *)
(***************************************************************************)
\* a wrapper that passes the executor's empty return value on
default_output_noview(stmt, c) ==
  IF c.err # "" \/ c.tuple THEN c ELSE [c EXCEPT !.tuple = TRUE]

\* _default_output: when the executor returned nothing, open a variable on
\* the view named after the output
_default_output(stmt, c) ==
  IF c.err # "" \/ c.tuple THEN c
  ELSE [c EXCEPT !.ret = new_var(c, stmt.output, stmt), !.tuple = TRUE]

\* a guard that looks at stmt["input"] alone
guard_first_input_only(stmt, c) ==
  IF Len(stmt.inputs) > 0
     /\ symtable[stmt.inputs[1]].length
          + symtable[stmt.inputs[1]].records_count = 0
    THEN Raise(c, "EmptyInputVariable")
    ELSE c

\* _guard_empty_input: the executor runs only when no input is empty
_guard_empty_input(stmt, c) ==
  IF \E i \in 1..Len(get_all_input_var_names(stmt)) :
       LET v == symtable[get_all_input_var_names(stmt)[i]]
       IN v.length + v.records_count = 0
    THEN Raise(c, "EmptyInputVariable")
    ELSE c

InputTables(stmt) == [i \in 1..Len(stmt.inputs) |-> get_entity_table(stmt.inputs[i])]

(***************************************************************************)
(* The executors without prefetch.  env holds what the collaborators       *)
(* answer: rows is the number of rows the produced view holds.             *)
(***************************************************************************)
\* a merge without the test of the entity types
merge_unchecked(stmt, env, c) ==
  LET c1 == store_merge(c, stmt.output, InputTables(stmt))
  IN _default_output(stmt, Return(c1, new_var(c1, stmt.output, stmt)))

merge(stmt, env, c) ==
  LET entity_types == {get_entity_type(stmt.inputs[i]) : i \in 1..Len(stmt.inputs)}
      c1 == IF Cardinality(entity_types) > 1
              THEN Raise(c, "NonUniformEntityType") ELSE c
      c2 == store_merge(c1, stmt.output, InputTables(stmt))
  IN _default_output(stmt, Return(c2, new_var(c2, stmt.output, stmt)))

\* load_data(store, output, data, type): the rows become the view output
load_data(c, view, type, rows) ==
  Issue(c, "load", view, <<type>>, FALSE, Put(c.views, view, type, rows),
        c.types \cup {type})

new(stmt, env, c) ==
  _default_output(stmt, load_data(c, stmt.output, stmt.type, env.rows))

\* load_data_file(store, output, path, type)
load(stmt, env, c) ==
  _default_output(stmt, load_data(c, stmt.output, stmt.type, env.rows))

\* dump_data_to_file(store, table, path) reads the view
save(stmt, env, c) ==
  LET c1 == _guard_empty_input(stmt, c)
      c2 == Issue(c1, "dump", get_entity_table(stmt.inputs[1]), <<>>,
                  ~Exists(c1.views, get_entity_table(stmt.inputs[1])),
                  c1.views, c1.types)
  IN Return(c2, NoVar)

info(stmt, env, c) ==
  Return(store_columns(c, get_entity_table(stmt.inputs[1])), NoVar)

\* the table display of the rows store.lookup answered (content), or of no
\* row
DisplayDataframe(view, content) ==
  [kind |-> "dataframe", view |-> view, rows |-> content]

\* a disp that takes the rows it shows out of the store
disp_consuming(stmt, env, c) ==
  LET entity_table == symtable[stmt.inputs[1]].entity_table
      c1 == IF entity_table # None
              THEN store_lookup(c, get_entity_table(stmt.inputs[1]))
              ELSE c
      content == IF entity_table # None THEN RowsOf(c1.views, entity_table)
                 ELSE 0
      c2 == IF entity_table # None /\ c1.err = ""
              THEN [c1 EXCEPT !.views = Put(@, entity_table,
                                            @[entity_table].type, 0)]
              ELSE c1
  IN Return(Show(c2, DisplayDataframe(entity_table, content)), NoVar)

\* a disp that asks the store whatever the variable holds
disp_always_lookup(stmt, env, c) ==
  LET entity_table == symtable[stmt.inputs[1]].entity_table
      c1 == store_lookup(c, get_entity_table(stmt.inputs[1]))
      content == RowsOf(c1.views, entity_table)
  IN Return(Show(c1, DisplayDataframe(entity_table, content)), NoVar)

disp(stmt, env, c) ==
  LET entity_table == symtable[stmt.inputs[1]].entity_table
      c1 == IF entity_table # None
              THEN store_lookup(c, get_entity_table(stmt.inputs[1]))
              ELSE c
      content == IF entity_table # None THEN RowsOf(c1.views, entity_table)
                 ELSE 0
  IN Return(Show(c1, DisplayDataframe(entity_table, content)), NoVar)

join(stmt, env, c) ==
  LET c1 == _guard_empty_input(stmt, c)
  IN _default_output(stmt,
       store_join(c1, stmt.output, get_entity_table(stmt.inputs[1]),
                  get_entity_table(stmt.inputs[2]), env.rows))

group(stmt, env, c) ==
  LET c1 == _guard_empty_input(stmt, c)
  IN _default_output(stmt,
       store_assign_query(c1, stmt.output, get_entity_table(stmt.inputs[1])))

sort(stmt, env, c) ==
  LET c1 == _guard_empty_input(stmt, c)
  IN _default_output(stmt,
       store_assign(c1, stmt.output, get_entity_table(stmt.inputs[1])))

\* an apply whose return value the default-output wrapper takes for nothing
apply_defaulted(stmt, env, c) ==
  LET c1 == _guard_empty_input(stmt, c)
  IN _default_output(stmt, analytics_execute(c1, stmt.inputs))

apply(stmt, env, c) ==
  LET c1 == _guard_empty_input(stmt, c)
  IN _default_output(stmt, Return(analytics_execute(c1, stmt.inputs), NoVar))

(***************************************************************************)
(* Patterns.  A compiled pattern is a string or None; the compiler's       *)
(* answer for a pattern body is part of env.                               *)
(***************************************************************************)
EventType == "x-oca-event"

\* kestrel.codegen.pattern.or_patterns: the disjunction of the patterns that
\* are not None, None when there is none
or_patterns(ps) ==
  LET some == SelectSeq(ps, LAMBDA p : p # None)
  IN IF some = <<>> THEN None
     ELSE IF Len(some) = 1 THEN some[1]
     ELSE some[1] \o " OR " \o some[2]

\* what a response of the datasource holds: its observations carry the
\* entities of every type and the events that relate them
Loaded(rows) == IF rows > 0 THEN EntityTypes \cup {EventType} ELSE {}

\* build_pattern(body, ...): answer is what the compiler makes of the body:
\* a pattern, None, or "invalid" when it raises InvalidAttribute
build_pattern(c, body, answer) ==
  LET c1 == Call(c, "build_pattern", "call", body, answer, 0)
  IN IF answer = "invalid" THEN Raise(c1, "InvalidAttribute") ELSE c1

(***************************************************************************)
(* Helper functions of the executors.                                      *)
(***************************************************************************)
\* _prefetch: env.pf is "nobody" (the identical-entity pattern body is
\* empty), "nopattern" (the remote pattern is None) or "query"; val is the
\* view name returned, or None
_prefetch(c, return_type, return_var_name, data_source, env) ==
  LET pattern_body == env.pf # "nobody"
      remote_pattern == IF env.pf = "query" THEN "remote" ELSE None
      c0 == Call(c, "_prefetch", "call", data_source, None, 0)
      cp == IF pattern_body
              THEN build_pattern(c0, "remote", remote_pattern) ELSE c0
      c1 == ds_query(cp, data_source, remote_pattern)
      c2 == load_to_store(c1, Loaded(env.pfrows))
      c3 == extract(c2, return_var_name, return_type, "q", remote_pattern,
                    env.pfrows)
  IN IF pattern_body /\ remote_pattern # None
       THEN SetVal(Call(c3, "_prefetch", "return", data_source,
                        return_var_name, env.pfrows),
                   return_var_name)
       ELSE SetVal(Call(cp, "_prefetch", "return", data_source, None, 0),
                   None)

\* _filter_prefetched_process: env.filt is what fine-grained filtering
\* keeps ("some" ids, "none") or "raise" when it fails on its arguments
_filter_prefetched_process(c, return_var_name, prefetched_entity_table, return_type, env) ==
  LET prefetch_filtered_var_name == return_var_name \o "_prefetch_filtered"
      c0 == Call(c, "_filter_prefetched_process", "call",
                 prefetched_entity_table, None, 0)
      c1 == IF env.filt = "raise" THEN Raise(c0, "StoreError") ELSE c0
      id_pattern == IF env.filt = "some" THEN "ids" ELSE None
      c2 == extract(c1, prefetch_filtered_var_name, return_type, None,
                    id_pattern, 1)
  IN IF id_pattern # None
       THEN SetVal(Call(c2, "_filter_prefetched_process", "return",
                        prefetched_entity_table, prefetch_filtered_var_name, 1),
                   prefetch_filtered_var_name)
       ELSE SetVal(Call(c1, "_filter_prefetched_process", "return",
                        prefetched_entity_table, None, 0), None)

\* the orders a Python set of three names can be iterated in
Orders == {<<1, 2, 3>>, <<1, 3, 2>>, <<2, 1, 3>>, <<2, 3, 1>>, <<3, 1, 2>>,
           <<3, 2, 1>>}

\* list(set(names)) in the order env chose: each name once
Dedup(names, order) ==
  LET seq == [i \in 1..3 |-> names[order[i]]]
  IN SelectSeq([i \in 1..3 |->
                  IF \E j \in 1..(i - 1) : seq[j] = seq[i] THEN "" ELSE seq[i]],
               LAMBDA v : v # "")

\* the loop without its test of debug_mode
remove_temps_always(c, temps) ==
  LET r1 == remove_view(c, temps[1])
      r2 == IF Len(temps) > 1 THEN remove_view(r1, temps[2]) ELSE r1
  IN IF Len(temps) > 2 THEN remove_view(r2, temps[3]) ELSE r2

\* the loop that removes the temporary views unless in debug mode
remove_temps(c, temps) ==
  IF debug_mode THEN c
  ELSE LET r1 == remove_view(c, temps[1])
           r2 == IF Len(temps) > 1 THEN remove_view(r1, temps[2]) ELSE r1
       IN IF Len(temps) > 2 THEN remove_view(r2, temps[3]) ELSE r2

\* an end of GET and FIND that merges whatever prefetch returned
merge_always(c, return_var_table, local_var_table, prefetch_ret_var_table, env) ==
  LET prefetch_ret_entity_table == c.val
  IN remove_temps(
       store_merge(c, return_var_table,
                   <<local_var_table, prefetch_ret_entity_table>>),
       Dedup(<<local_var_table, prefetch_ret_entity_table,
               prefetch_ret_var_table>>, env.order))

\* the end of GET from a datasource and of FIND: merge the local view and
\* the prefetched one (c.val) into the output, or rename the local view
merge_or_rename(c, return_var_table, local_var_table, prefetch_ret_var_table, env) ==
  LET prefetch_ret_entity_table == c.val
  IN IF prefetch_ret_entity_table # None
       THEN remove_temps(
              store_merge(c, return_var_table,
                          <<local_var_table, prefetch_ret_entity_table>>),
              Dedup(<<local_var_table, prefetch_ret_entity_table,
                      prefetch_ret_var_table>>, env.order))
       ELSE rename_view(c, local_var_table, return_var_table)

\* get_entity_id_attribute(_output), asked only for processes
get_entity_id_attribute(p, return_type, _output, env) ==
  IF return_type = "process"
    THEN Call(p, "get_entity_id_attribute", "call", _output.entity_table,
              env.idattr, 0)
    ELSE p

\* the process filtering of what prefetch (p) returned, where it is due
filter_if_process(p, return_type, return_var_table, env) ==
  IF return_type = "process" /\ env.idattr # "id"
    THEN _filter_prefetched_process(p, return_var_table, p.val, return_type,
                                    env)
    ELSE p

\* prefetch that looks at the identity attribute and filters nothing
prefetch_unfiltered(c, return_type, return_var_table, _output, env) ==
  get_entity_id_attribute(
    _prefetch(c, return_type, return_var_table \o "_prefetch",
              _output.data_source, env),
    return_type, _output, env)

\* prefetch and, for process on an id-less source, process filtering
prefetch_and_filter(c, return_type, return_var_table, _output, env) ==
  filter_if_process(
    get_entity_id_attribute(
      _prefetch(c, return_type, return_var_table \o "_prefetch",
                _output.data_source, env),
      return_type, _output, env),
    return_type, return_var_table, env)

(***************************************************************************)
(* GET                                                                     *)
(***************************************************************************)
get_datasource(stmt, env, c) ==
  LET local_var_table == stmt.output \o "_local"
      return_var_table == stmt.output
      return_type == stmt.type
      c1 == ds_query(c, stmt.datasource, env.pat)
      c2 == load_to_store(c1, Loaded(env.lrows))
      c3 == extract(c2, local_var_table, return_type, "q", env.pat, env.lrows)
      _output == new_var(c3, local_var_table, stmt)
      c4 == IF config.prefetch_get /\ _output.length > 0
              THEN prefetch_and_filter(c3, return_type, return_var_table,
                                       _output, env)
              ELSE SetVal(c3, None)
      c5 == merge_or_rename(c4, return_var_table, local_var_table,
                            return_var_table \o "_prefetch", env)
  IN Return(c5, new_var(c5, return_var_table, stmt))

get_variablesource(stmt, env, c) ==
  LET c1 == store_filter(c, stmt.output, stmt.type,
                         get_entity_table(stmt.inputs[1]), env.pat, env.lrows)
  IN Return(c1, new_var(c1, stmt.output, stmt))

\* a get whose second branch is a plain else
get_any_source(stmt, env, c) ==
  LET c0 == build_pattern(c, "get", env.pat)
  IN _default_output(stmt,
       IF stmt.source = "variablesource" THEN get_variablesource(stmt, env, c0)
       ELSE get_datasource(stmt, env, c0))

get(stmt, env, c) ==
  LET c0 == build_pattern(c, "get", env.pat)
  IN _default_output(stmt,
       IF stmt.source = "variablesource" THEN get_variablesource(stmt, env, c0)
       ELSE IF stmt.source = "datasource" THEN get_datasource(stmt, env, c0)
       ELSE Raise(c0, "KestrelInternalError"))

(***************************************************************************)
(* FIND                                                                    *)
(***************************************************************************)
\* an event-flow branch without its except clause
find_event_flow_uncaught(stmt, env, c) ==
  LET local_var_event_name == stmt.output \o "_asso_event"
      c1 == build_pattern(c, "event_in", env.evIn)
      c2 == extract(c1, local_var_event_name, EventType, None, env.evIn, 1)
      c3 == build_pattern(c2, "event_out", env.evOut)
      c4 == SetVal(c3, env.evOut)
  IN IF ~debug_mode THEN remove_view(c4, local_var_event_name) ELSE c4

\* the optional event-flow branch; val is event_pattern
find_event_flow(stmt, env, c) ==
  LET local_var_event_name == stmt.output \o "_asso_event"
      c1 == build_pattern(c, "event_in", env.evIn)
      c2 == extract(c1, local_var_event_name, EventType, None, env.evIn, 1)
      c3 == build_pattern(c2, "event_out", env.evOut)
      c4 == SetVal(c3, env.evOut)
      c5 == IF ~debug_mode THEN remove_view(c4, local_var_event_name) ELSE c4
  IN IF c5.err = "InvalidAttribute"
       THEN [c5 EXCEPT !.err = "", !.val = None]
       ELSE c5

\* a find that prefetches whatever the data source of the local variable
find_local_any_source(stmt, env, c, local_pattern) ==
  LET return_var_table == stmt.output
      local_var_table == stmt.output \o "_local"
      return_type == stmt.type
      c1 == extract(c, local_var_table, return_type, None, local_pattern,
                    env.lrows)
      _output == new_var(c1, local_var_table, stmt)
      c2 == IF config.prefetch_find /\ _output.length > 0
              THEN prefetch_and_filter(c1, return_type, return_var_table,
                                       _output, env)
              ELSE SetVal(c1, None)
      c3 == merge_or_rename(c2, return_var_table, local_var_table,
                            return_var_table \o "_prefetch", env)
  IN Return(c3, new_var(c3, return_var_table, stmt))

find_local(stmt, env, c, local_pattern) ==
  LET return_var_table == stmt.output
      local_var_table == stmt.output \o "_local"
      return_type == stmt.type
      c1 == extract(c, local_var_table, return_type, None, local_pattern,
                    env.lrows)
      _output == new_var(c1, local_var_table, stmt)
      c2 == IF config.prefetch_find /\ _output.length > 0
               /\ _output.data_source # None
              THEN prefetch_and_filter(c1, return_type, return_var_table,
                                       _output, env)
              ELSE SetVal(c1, None)
      c3 == merge_or_rename(c2, return_var_table, local_var_table,
                            return_var_table \o "_prefetch", env)
  IN Return(c3, new_var(c3, return_var_table, stmt))

\* a find that goes on to the local extraction whatever the final pattern
find_body_any_pattern(stmt, env, c) ==
  LET return_type == stmt.type
      input_type == symtable[stmt.inputs[1]].type
  IN IF return_type \notin c.types
       THEN Return(c, new_var(c, None, stmt))
       ELSE
         LET cE == IF env.generic /\ EventType \in c.types /\ env.assoc
                      /\ input_type # return_type
                     THEN find_event_flow(stmt, env, c)
                     ELSE SetVal(c, None)
             event_pattern == cE.val
             cR == Call(cE, "build_pattern", "call", "raw", env.rawpat, 0)
             raw_pattern == IF env.rawpat = "invalid" THEN None ELSE env.rawpat
             local_pattern == or_patterns(<<raw_pattern, event_pattern>>)
         IN find_local(stmt, env, cR, local_pattern)

\* a find that does not look at the entity types of the store
find_body_any_type(stmt, env, c) ==
  LET return_type == stmt.type
      input_type == symtable[stmt.inputs[1]].type
      cE == IF env.generic /\ EventType \in c.types /\ env.assoc
               /\ input_type # return_type
              THEN find_event_flow(stmt, env, c)
              ELSE SetVal(c, None)
      event_pattern == cE.val
      cR == Call(cE, "build_pattern", "call", "raw", env.rawpat, 0)
      raw_pattern == IF env.rawpat = "invalid" THEN None ELSE env.rawpat
      local_pattern == or_patterns(<<raw_pattern, event_pattern>>)
  IN IF local_pattern # None
       THEN find_local(stmt, env, cR, local_pattern)
       ELSE Return(cR, new_var(cR, None, stmt))

find_body(stmt, env, c) ==
  LET return_type == stmt.type
      input_type == symtable[stmt.inputs[1]].type
  IN IF return_type \notin c.types
       THEN Return(c, new_var(c, None, stmt))
       ELSE
         LET cE == IF env.generic /\ EventType \in c.types /\ env.assoc
                      /\ input_type # return_type
                     THEN find_event_flow(stmt, env, c)
                     ELSE SetVal(c, None)
             event_pattern == cE.val
             cR == Call(cE, "build_pattern", "call", "raw", env.rawpat, 0)
             raw_pattern == IF env.rawpat = "invalid" THEN None ELSE env.rawpat
             local_pattern == or_patterns(<<raw_pattern, event_pattern>>)
         IN IF local_pattern # None
              THEN find_local(stmt, env, cR, local_pattern)
              ELSE Return(cR, new_var(cR, None, stmt))

find(stmt, env, c) ==
  _default_output(stmt, find_body(stmt, env, _guard_empty_input(stmt, c)))

(***************************************************************************)
(* The session: one statement at a time.                                   *)
(***************************************************************************)
\* the answers of the collaborators a statement does not ask for
NoPrefetch ==
  [pf |-> "nobody", pfrows |-> 0, idattr |-> "id", filt |-> "none",
   order |-> <<1, 2, 3>>]

DefaultEnv ==
  [rows |-> 0, pat |-> "pat", lrows |-> 0, generic |-> FALSE,
   assoc |-> FALSE, evIn |-> None, evOut |-> None, rawpat |-> None]

\* The answers prefetch and process filtering can give for a local view of
\* the given type: no rows are loaded unless a query is sent, fine-grained
\* filtering keeps ids only of prefetched rows, and the iteration order of
\* the set of temporaries matters only where the loop removes them.
PrefetchAnswers(type) ==
  {a \in {"nobody", "nopattern", "query"} \X RowCounts \X {"id", "pid"}
          \X {"none", "some", "raise"} :
     /\ a[1] # "query" => a[2] = 0
     /\ type # "process" => a[3] = "id"
     /\ a[3] = "id" => a[4] = "none"
     /\ a[4] = "some" => a[1] = "query" /\ a[2] > 0
     /\ a[4] = "raise" => a[1] # "query"}

PrefetchOrders(a) ==
  {o \in Orders :
     o # <<1, 2, 3>> =>
       /\ ~debug_mode
       /\ IF a[3] = "id" THEN a[1] = "query" /\ o = <<2, 1, 3>>
          ELSE a[4] = "some"}

PrefetchEnvs(run, type) ==
  IF ~run THEN {NoPrefetch}
  ELSE UNION {{[pf |-> a[1], pfrows |-> a[2], idattr |-> a[3], filt |-> a[4],
                order |-> o] : o \in PrefetchOrders(a)} :
                a \in PrefetchAnswers(type)}

AllBound(stmt) == \A i \in 1..Len(stmt.inputs) : IsBound(stmt.inputs[i])

GetEnvs(stmt) ==
  IF ~AllBound(stmt) THEN {DefaultEnv @@ NoPrefetch}
  ELSE
  UNION {{pe @@ [pat |-> a[1], lrows |-> a[2]] @@ DefaultEnv :
            pe \in PrefetchEnvs(stmt.source = "datasource" /\ a[1] = "pat"
                                  /\ config.prefetch_get /\ a[2] > 0,
                                stmt.type)} :
           a \in {b \in {"pat", "invalid"} \X RowCounts :
                    stmt.source = "none" \/ b[1] = "invalid" => b[2] = 0}}

\* what the compiler can answer in the event-flow branch: the event-out
\* body is compiled only after the event-in pattern was built
EventEnvs ==
  {e \in [generic : {TRUE}, assoc : {TRUE},
          evIn : {"event_in", None, "invalid"},
          evOut : {"event", None, "invalid"}] :
     e.evIn # "event_in" => e.evOut = None}

NoEvent == [generic |-> FALSE, assoc |-> FALSE, evIn |-> None, evOut |-> None]

\* FIND: whether the relation is generic, whether both types associate with
\* events, and what the compiler answers for the event-in, event-out and
\* raw relation pattern bodies
FindEnvs(stmt) ==
  LET input == symtable[stmt.inputs[1]]
  IN IF ~IsBound(stmt.inputs[1]) \/ input.length + input.records_count = 0
        \/ stmt.type \notin types
       THEN {DefaultEnv @@ NoPrefetch}
       ELSE
         UNION {{pe @@ a[1] @@ [rawpat |-> a[2], lrows |-> a[3]] @@ DefaultEnv :
                   pe \in PrefetchEnvs(config.prefetch_find /\ a[3] > 0
                                         /\ input.data_source # None,
                                       stmt.type)} :
                  a \in {b \in (IF EventType \in types /\ input.type # stmt.type
                                  THEN EventEnvs \cup {NoEvent} ELSE {NoEvent})
                                \X {"raw", None, "invalid"} \X RowCounts :
                           (b[2] # "raw" /\ b[1].evOut # "event") => b[3] = 0}}

execute(stmt, env, failAt) ==
  LET c == check_var_exists(stmt, Ctx(failAt))
  IN CASE stmt.command = "new" -> new(stmt, env, c)
       [] stmt.command = "load" -> load(stmt, env, c)
       [] stmt.command = "save" -> save(stmt, env, c)
       [] stmt.command = "info" -> info(stmt, env, c)
       [] stmt.command = "disp" -> disp(stmt, env, c)
       [] stmt.command = "get" -> get(stmt, env, c)
       [] stmt.command = "find" -> find(stmt, env, c)
       [] stmt.command = "join" -> join(stmt, env, c)
       [] stmt.command = "group" -> group(stmt, env, c)
       [] stmt.command = "sort" -> sort(stmt, env, c)
       [] stmt.command = "apply" -> apply(stmt, env, c)
       [] stmt.command = "merge" -> merge(stmt, env, c)

\* the session keeps what the executor did to the store, binds the returned
\* VarStruct under the output name, and surfaces the error
Commit(stmt, c) ==
  /\ views' = c.views
  /\ types' = c.types
  /\ ops' = c.ops
  /\ symtable' = IF c.err = "" /\ c.ret # NoVar
                   THEN [symtable EXCEPT ![stmt.output] = c.ret]
                   ELSE symtable
  /\ last' = [command |-> stmt.command, output |-> stmt.output,
              inputs |-> stmt.inputs, type |-> stmt.type,
              source |-> stmt.source, err |-> c.err,
              ret |-> IF c.err = "" THEN c.ret ELSE NoVar,
              display |-> IF c.err = "" THEN c.display ELSE NoDisplay]
  /\ calls' = c.calls
  /\ nstmts' = nstmts + 1
  /\ UNCHANGED <<debug_mode, config, prev, data>>

\* what the statement can come to under env: c0 when no call fails, or the
\* outcome of its failAt-th call failing
Outcomes(stmt, env, c0) ==
  {c0} \cup {execute(stmt, env, failAt) : failAt \in 1..c0.n}

\* a statement under every answer of the collaborators, any one of its
\* calls failing (failAt) or none (0)
Run(stmt, envs) ==
  \E c \in UNION {Outcomes(stmt, env, execute(stmt, env, 0)) : env \in envs} :
    Commit(stmt, c)

Idle ==
  [command |-> "idle", output |-> None, inputs |-> <<>>, type |-> None,
   source |-> None, err |-> "", ret |-> NoVar, display |-> NoDisplay]

\* what the caller keeps of the statement before: the display of a DISP
NoPrev == [input |-> None, display |-> NoDisplay]

\* the rows, statement, query and display of the data-level GROUP model
NoData == [pc |-> "off"]

\* the session is ready for a statement
Ready == last = Idle /\ nstmts < MaxStmts

RowEnvs == {[rows |-> r] @@ DefaultEnv @@ NoPrefetch : r \in RowCounts}

InputLists == {<<v>> : v \in VarNames} \cup {<<v, w>> : v, w \in VarNames}

Init ==
  /\ views = [w \in {} |-> [type |-> None, rows |-> 0]]
  /\ types = {}
  /\ symtable = [v \in VarNames |-> Unbound]
  /\ debug_mode \in BOOLEAN
  /\ config \in [prefetch_get : BOOLEAN, prefetch_find : BOOLEAN]
  /\ ops = <<>>
  /\ last = Idle
  /\ nstmts = 0
  /\ calls = <<>>
  /\ prev = NoPrev
  /\ data = NoData

New ==
  /\ Ready
  /\ \E o \in VarNames, t \in EntityTypes :
       Run(Stmt("new", o, <<>>, t, None, None), RowEnvs)

Load ==
  /\ Ready
  /\ \E o \in VarNames, t \in EntityTypes :
       Run(Stmt("load", o, <<>>, t, None, None), RowEnvs)

Save ==
  /\ Ready
  /\ \E i \in VarNames :
       Run(Stmt("save", None, <<i>>, None, None, None),
           {DefaultEnv @@ NoPrefetch})

Info ==
  /\ Ready
  /\ \E i \in VarNames :
       Run(Stmt("info", None, <<i>>, None, None, None),
           {DefaultEnv @@ NoPrefetch})

Disp ==
  /\ Ready
  /\ \E i \in VarNames :
       Run(Stmt("disp", None, <<i>>, None, None, None),
           {DefaultEnv @@ NoPrefetch})

Get ==
  /\ Ready
  /\ \E o \in VarNames, t \in EntityTypes :
       \/ \E ds \in DataSources :
            LET stmt == Stmt("get", o, <<>>, t, "datasource", ds)
            IN Run(stmt, GetEnvs(stmt))
       \/ \E i \in VarNames :
            LET stmt == Stmt("get", o, <<i>>, t, "variablesource", None)
            IN Run(stmt, GetEnvs(stmt))
       \/ LET stmt == Stmt("get", o, <<>>, t, "none", None)
          IN Run(stmt, GetEnvs(stmt))

Find ==
  /\ Ready
  /\ \E o \in VarNames, i \in VarNames, t \in EntityTypes :
       LET stmt == Stmt("find", o, <<i>>, t, None, None)
       IN Run(stmt, FindEnvs(stmt))

Join ==
  /\ Ready
  /\ \E o \in VarNames, i \in VarNames, j \in VarNames :
       Run(Stmt("join", o, <<i, j>>, None, None, None), RowEnvs)

Group ==
  /\ Ready
  /\ \E o \in VarNames, i \in VarNames :
       Run(Stmt("group", o, <<i>>, None, None, None),
           {DefaultEnv @@ NoPrefetch})

Sort ==
  /\ Ready
  /\ \E o \in VarNames, i \in VarNames :
       Run(Stmt("sort", o, <<i>>, None, None, None),
           {DefaultEnv @@ NoPrefetch})

Apply ==
  /\ Ready
  /\ \E ins \in InputLists :
       Run(Stmt("apply", None, ins, None, None, None),
           {DefaultEnv @@ NoPrefetch})

Merge ==
  /\ Ready
  /\ \E o \in VarNames, ins \in InputLists :
       Run(Stmt("merge", o, ins, None, None, None),
           {DefaultEnv @@ NoPrefetch})

\* The statement has returned and the session is ready for the next one.
\* An exception surfaces to the caller of the session and ends the run.
Prompt ==
  /\ last # Idle
  /\ last.err = ""
  /\ last' = Idle
  /\ ops' = <<>>
  /\ calls' = <<>>
  /\ prev' = IF last.command = "disp"
              THEN [input |-> last.inputs[1], display |-> last.display]
              ELSE NoPrev
  /\ UNCHANGED <<views, types, symtable, debug_mode, config, nstmts, data>>

Next ==
  \/ New
  \/ Load
  \/ Save
  \/ Info
  \/ Disp
  \/ Get
  \/ Find
  \/ Join
  \/ Group
  \/ Sort
  \/ Apply
  \/ Merge
  \/ Prompt

Spec == Init /\ [][Next]_vars

(***************************************************************************)
(* The same session taken up after its first statements: NEW statements    *)
(* have bound some of the variables, and one statement less is left.       *)
(***************************************************************************)
\* each variable is unbound, bound by NEW, or bound to the empty variable
\* by a FIND from a variable with rows
NewVars ==
  {s \in [VarNames -> {Unbound, EmptyVar} \cup
                        {[entity_table |-> None, type |-> t, length |-> r,
                          records_count |-> r, data_source |-> None] :
                           t \in EntityTypes, r \in RowCounts}] :
     (\E v \in VarNames : s[v] = EmptyVar) =>
       \E w \in VarNames : s[w].length > 0}

InitVars ==
  /\ \E s \in NewVars :
       /\ symtable = [v \in VarNames |->
                        IF s[v] \in {Unbound, EmptyVar} THEN s[v]
                        ELSE [s[v] EXCEPT !.entity_table = v]]
       /\ views = [v \in {w \in VarNames : s[w] \notin {Unbound, EmptyVar}} |->
                     [type |-> s[v].type, rows |-> s[v].length]]
       /\ types = {s[v].type :
                     v \in {w \in VarNames : s[w] \notin {Unbound, EmptyVar}}}
  /\ debug_mode \in BOOLEAN
  /\ config = [prefetch_get |-> TRUE, prefetch_find |-> TRUE]
  /\ ops = <<>>
  /\ last = Idle
  /\ nstmts = 1
  /\ calls = <<>>
  /\ prev = NoPrev
  /\ data = NoData

SpecVars == InitVars /\ [][Next]_vars

(***************************************************************************)
(* A session whose variables are bound and whose caller only displays      *)
(* them, statement after statement.                                        *)
(***************************************************************************)
InitDisp ==
  /\ \E s \in NewVars :
       /\ symtable = [v \in VarNames |->
                        IF s[v] \in {Unbound, EmptyVar} THEN s[v]
                        ELSE [s[v] EXCEPT !.entity_table = v]]
       /\ views = [v \in {w \in VarNames : s[w] \notin {Unbound, EmptyVar}} |->
                     [type |-> s[v].type, rows |-> s[v].length]]
       /\ types = {s[v].type :
                     v \in {w \in VarNames : s[w] \notin {Unbound, EmptyVar}}}
  /\ debug_mode \in BOOLEAN
  /\ config = [prefetch_get |-> TRUE, prefetch_find |-> TRUE]
  /\ ops = <<>>
  /\ last = Idle
  /\ nstmts = 0
  /\ calls = <<>>
  /\ prev = NoPrev
  /\ data = NoData

NextDisp ==
  \/ Disp
  \/ Prompt

SpecDisp == InitDisp /\ [][NextDisp]_vars

(***************************************************************************)
(* GROUP and DISP on the rows themselves: x = NEW [rows], g = GROUP x BY   *)
(* paths [WITH aggregations], DISP g.  data holds the rows of x, the       *)
(* statement as written, the query the executor hands to the store, the    *)
(* view g the store makes of it, and the rows DISP returns.                *)
(***************************************************************************)
MaxRecs == 3

\* a direct attribute and a reference attribute, and the values they take
Paths == {"name", "dst_ref.value"}
Vals == {"a", "b"}
Records == [Paths -> Vals]
RowLists == UNION {[1..n -> Records] : n \in 0..MaxRecs}

PathLists == {<<"name">>, <<"dst_ref.value">>, <<"name", "dst_ref.value">>}

\* an aggregation as written: func(attr) [AS alias]
Written ==
  [func : {"sum", "count"}, attr : {"number_observed"}, alias : {None, "total"}]

\* the parser: the alias defaults to func_attr
parse_aggregation(w) ==
  [func |-> w.func, attr |-> w.attr,
   alias |-> IF w.alias = None THEN w.func \o "_" \o w.attr ELSE w.alias]

\* the WITH clauses: none, one aggregation, or two under different names
WrittenLists ==
  {<<>>} \cup {<<w>> : w \in Written} \cup
  {<<p[1], p[2]>> :
     p \in {q \in Written \X Written :
              parse_aggregation(q[1]).alias # parse_aggregation(q[2]).alias}}

\* the parsed statement; the key "aggregations" is there only with WITH
GroupStmt(paths, written) ==
  [paths |-> paths, has_aggregations |-> Len(written) > 0,
   aggregations |-> [i \in DOMAIN written |-> parse_aggregation(written[i])]]

NoQuery ==
  [table |-> None, group |-> FALSE, paths |-> <<>>, aggregation |-> FALSE,
   aggs |-> <<>>]

\* a query without its Group stage
group_query_ungrouped(stmt, table) ==
  [table |-> table, group |-> FALSE, paths |-> <<>>,
   aggregation |-> stmt.has_aggregations,
   aggs |-> [i \in DOMAIN stmt.aggregations |->
               <<stmt.aggregations[i].func, stmt.aggregations[i].attr,
                 stmt.aggregations[i].alias>>]]

\* a query whose aggregations come last first
group_query_reversed(stmt, table) ==
  [table |-> table, group |-> TRUE, paths |-> stmt.paths,
   aggregation |-> stmt.has_aggregations,
   aggs |-> [i \in DOMAIN stmt.aggregations |->
               LET a == stmt.aggregations[Len(stmt.aggregations) + 1 - i]
               IN <<a.func, a.attr, a.alias>>]]

\* Query([Table(input), Group(paths)]) and, with WITH, Aggregation(aggs)
group_query(stmt, table) ==
  [table |-> table, group |-> TRUE, paths |-> stmt.paths,
   aggregation |-> stmt.has_aggregations,
   aggs |-> IF stmt.has_aggregations
              THEN [i \in DOMAIN stmt.aggregations |->
                      <<stmt.aggregations[i].func, stmt.aggregations[i].attr,
                        stmt.aggregations[i].alias>>]
              ELSE <<>>]

\* the rows of ds in order, each once
RECURSIVE dedup_ordered_dicts(_)
dedup_ordered_dicts(ds) ==
  IF ds = <<>> THEN <<>>
  ELSE LET init == dedup_ordered_dicts(SubSeq(ds, 1, Len(ds) - 1))
           d == ds[Len(ds)]
       IN IF \E i \in DOMAIN init : init[i] = d THEN init
          ELSE Append(init, d)

\* the rows of ds that have a value in some column
remove_empty_dicts(ds) ==
  SelectSeq(ds, LAMBDA d : \E i \in DOMAIN d : d[i] # None)

NoView == [columns |-> <<>>, rows |-> <<>>]

\* store.assign_query(view, query): the view of the rows of the table, one
\* row per combination of values of the grouping paths, with one column per
\* path and one per aggregation named by its alias
assign_query(rows, query) ==
  IF ~query.group
    THEN [columns |-> <<"name", "dst_ref.value">>,
          rows |-> [i \in DOMAIN rows |->
                      <<rows[i]["name"], rows[i]["dst_ref.value"]>>]]
    ELSE LET keys == dedup_ordered_dicts(
                       [i \in DOMAIN rows |->
                          [j \in DOMAIN query.paths |-> rows[i][query.paths[j]]]])
             cells == [i \in DOMAIN query.aggs |->
                         query.aggs[i][1] \o "(" \o query.aggs[i][2] \o ")"]
         IN [columns |-> query.paths \o
                           [i \in DOMAIN query.aggs |-> query.aggs[i][3]],
             rows |-> [k \in DOMAIN keys |-> keys[k] \o cells]]

InitGroup ==
  /\ views = [w \in {} |-> [type |-> None, rows |-> 0]]
  /\ types = {}
  /\ symtable = [v \in VarNames |-> Unbound]
  /\ debug_mode = FALSE
  /\ config = [prefetch_get |-> TRUE, prefetch_find |-> TRUE]
  /\ ops = <<>>
  /\ last = Idle
  /\ nstmts = 0
  /\ calls = <<>>
  /\ prev = NoPrev
  /\ data \in {[pc |-> "new", x |-> rows, paths |-> <<>>, written |-> <<>>,
                 query |-> NoQuery, g |-> NoView, display |-> <<>>,
                 err |-> ""] : rows \in RowLists}

\* g = GROUP x BY paths [WITH aggregations]
GroupBy ==
  /\ data.pc = "new"
  /\ \E paths \in PathLists, written \in WrittenLists :
       LET stmt == GroupStmt(paths, written)
           query == group_query(stmt, "x")
       IN data' = IF Len(data.x) = 0
                    THEN [data EXCEPT !.pc = "raised", !.paths = paths,
                                      !.written = written,
                                      !.err = "EmptyInputVariable"]
                    ELSE [data EXCEPT !.pc = "grouped", !.paths = paths,
                                      !.written = written, !.query = query,
                                      !.g = assign_query(data.x, query)]
  /\ UNCHANGED <<views, types, symtable, debug_mode, config, ops, last,
                 nstmts, calls, prev>>

\* DISP g
DispGrouped ==
  /\ data.pc = "grouped"
  /\ data' = [data EXCEPT !.pc = "displayed",
                          !.display = dedup_ordered_dicts(
                                        remove_empty_dicts(data.g.rows))]
  /\ UNCHANGED <<views, types, symtable, debug_mode, config, ops, last,
                 nstmts, calls, prev>>

NextGroup ==
  \/ GroupBy
  \/ DispGrouped

SpecGroup == InitGroup /\ [][NextGroup]_vars

(***************************************************************************)
(* INFO on the column names themselves: data holds the header that         *)
(* store.columns answers and the three attribute fields of the display.    *)
(***************************************************************************)
MaxCols == 3

\* column names of a view: direct, customized, reference and indirect ones
Columns ==
  {"name", "x_tag", "x_host_ref", "parent_ref", "opened_refs",
   "src_ref.value", "src_ref.port", "dst_ref.value", "parent_ref_pid"}

\* the headers: up to MaxCols columns, each once, in any order
Headers ==
  UNION {{h \in [1..n -> Columns] :
            \A i, j \in 1..n : i # j => h[i] # h[j]} : n \in 0..MaxCols}

\* str.startswith, str.endswith and the operator in of Python strings
startswith(str, prefix) ==
  Len(str) >= Len(prefix) /\ SubSeq(str, 1, Len(prefix)) = prefix

endswith(str, suffix) ==
  /\ Len(str) >= Len(suffix)
  /\ SubSeq(str, Len(str) - Len(suffix) + 1, Len(str)) = suffix

contains(str, sub) ==
  \E i \in 1..(Len(str) + 1 - Len(sub)) :
    SubSeq(str, i, i + Len(sub) - 1) = sub

\* x.rsplit(".", 1)[0]: what is left of the last dot, x when it has none
rsplit_dot(x) ==
  LET dots == {i \in 1..Len(x) : SubSeq(x, i, i) = "."}
  IN IF dots = {} THEN x
     ELSE SubSeq(x, 1, (CHOOSE i \in dots : \A j \in dots : j <= i) - 1)

\* the branch of the if/elif chain a field takes
classify(field) ==
  IF startswith(field, "x_") THEN "custom"
  ELSE IF endswith(field, "_ref") \/ endswith(field, "_refs")
          \/ endswith(field, "_reference") \/ endswith(field, "_references")
    THEN "references"
  ELSE IF contains(field, "_ref.") \/ contains(field, "_ref_") THEN "associ"
  ELSE "direct"

\* itertools.groupby(xs, key = rsplit_dot): the runs of consecutive items
\* with equal keys
RECURSIVE groupby(_)
groupby(xs) ==
  IF xs = <<>> THEN <<>>
  ELSE LET init == groupby(SubSeq(xs, 1, Len(xs) - 1))
           x == xs[Len(xs)]
       IN IF init # <<>> /\ rsplit_dot(init[Len(init)][1]) = rsplit_dot(x)
            THEN [init EXCEPT ![Len(init)] = Append(@, x)]
            ELSE Append(init, <<x>>)

\* the attribute fields of the display; each ", ".join(...) is kept as the
\* list it joins
info_display(header) ==
  [direct |-> SelectSeq(header, LAMBDA f : classify(f) = "direct"),
   associ |-> groupby(SelectSeq(header, LAMBDA f : classify(f) = "associ")),
   custom |-> SelectSeq(header, LAMBDA f : classify(f) = "custom")]

NoInfo == [direct |-> <<>>, associ |-> <<>>, custom |-> <<>>]

InitInfo ==
  /\ views = [w \in {} |-> [type |-> None, rows |-> 0]]
  /\ types = {}
  /\ symtable = [v \in VarNames |-> Unbound]
  /\ debug_mode = FALSE
  /\ config = [prefetch_get |-> TRUE, prefetch_find |-> TRUE]
  /\ ops = <<>>
  /\ last = Idle
  /\ nstmts = 0
  /\ calls = <<>>
  /\ prev = NoPrev
  /\ data \in {[pc |-> "header", header |-> h, disp |-> NoInfo] : h \in Headers}

\* INFO x
InfoColumns ==
  /\ data.pc = "header"
  /\ data' = [data EXCEPT !.pc = "shown", !.disp = info_display(data.header)]
  /\ UNCHANGED <<views, types, symtable, debug_mode, config, ops, last,
                 nstmts, calls, prev>>

NextInfo ==
  \/ InfoColumns

SpecInfo == InitInfo /\ [][NextInfo]_vars

(***************************************************************************)
(* DISP _ with execution tracking: data holds the tracking graph and the   *)
(* roots, leaves and paths the executor computes from it.                  *)
(***************************************************************************)
MaxNodes == 3

\* the tracking graphs: some nodes and directed edges between two of them
Graphs ==
  UNION {{[nodes |-> ns, edges |-> es] :
            es \in SUBSET {e \in ns \X ns : e[1] # e[2]}} :
           ns \in SUBSET (1..MaxNodes) \ {{}}}

in_degree(g, node) == Cardinality({e \in g.edges : e[2] = node})

out_degree(g, node) == Cardinality({e \in g.edges : e[1] = node})

\* networkx.all_simple_paths(g, source, target): the paths from source to
\* target that repeat no node
all_simple_paths(g, source, target) ==
  {p \in UNION {[1..n -> g.nodes] : n \in 2..MaxNodes} :
     /\ p[1] = source
     /\ p[Len(p)] = target
     /\ \A i, j \in DOMAIN p : i # j => p[i] # p[j]
     /\ \A i \in 1..(Len(p) - 1) : <<p[i], p[i + 1]>> \in g.edges}

\* the loop over g.nodes: a node without in-edges is a root, else a node
\* without out-edges is a leaf
tracking_roots(g) == {node \in g.nodes : in_degree(g, node) = 0}

tracking_leaves(g) ==
  {node \in g.nodes : in_degree(g, node) # 0 /\ out_degree(g, node) = 0}

\* allpaths: how many times the loops over roots and leaves append a path
tracking_allpaths(g, roots, leaves) ==
  [p \in UNION {all_simple_paths(g, rl[1], rl[2]) : rl \in roots \X leaves} |->
     Cardinality({rl \in roots \X leaves :
                    p \in all_simple_paths(g, rl[1], rl[2])})]

InitTrack ==
  /\ views = [w \in {} |-> [type |-> None, rows |-> 0]]
  /\ types = {}
  /\ symtable = [v \in VarNames |-> Unbound]
  /\ debug_mode = FALSE
  /\ config = [prefetch_get |-> TRUE, prefetch_find |-> TRUE]
  /\ ops = <<>>
  /\ last = Idle
  /\ nstmts = 0
  /\ calls = <<>>
  /\ prev = NoPrev
  /\ data \in {[pc |-> "tracking", g |-> g, roots |-> {}, leaves |-> {},
                 allpaths |-> <<>>] : g \in Graphs}

\* DISP _
DispTracking ==
  /\ data.pc = "tracking"
  /\ data' = [data EXCEPT !.pc = "html",
                          !.roots = tracking_roots(data.g),
                          !.leaves = tracking_leaves(data.g),
                          !.allpaths = tracking_allpaths(
                                         data.g, tracking_roots(data.g),
                                         tracking_leaves(data.g))]
  /\ UNCHANGED <<views, types, symtable, debug_mode, config, ops, last,
                 nstmts, calls, prev>>

NextTrack ==
  \/ DispTracking

SpecTrack == InitTrack /\ [][NextTrack]_vars

(***************************************************************************)
(* Properties of a session.  A state with last # Idle is the moment a      *)
(* statement returns to its caller; ops is what that statement issued.     *)
(***************************************************************************)
Done == last # Idle

Succeeded == Done /\ last.err = ""

\* the temporary view names of a GET or FIND with output o
Temps(o) == {o \o "_local", o \o "_prefetch", o \o "_prefetch_filtered",
             o \o "_asso_event"}

\* the views the statement created, moved away, and asked to remove
Created == {ops[i].view : i \in {j \in DOMAIN ops :
                                   ops[j].op = "extract" /\ ops[j].ok}}

Renamed == {ops[i].args[1] : i \in {j \in DOMAIN ops :
                                      ops[j].op = "rename_view" /\ ops[j].ok}}

Removed == {ops[i].view : i \in {j \in DOMAIN ops :
                                   ops[j].op = "remove_view" /\ ops[j].ok}}

Fetches == Done /\ (last.command = "find"
                      \/ (last.command = "get" /\ last.source = "datasource"))

\* the input names of the statement that returns in the next state, looked
\* up in the symbol table it started from
SomeInputUnbound == \E i \in 1..Len(last'.inputs) : ~IsBound(last'.inputs[i])

InputTypes == {get_entity_type(last'.inputs[i]) : i \in 1..Len(last'.inputs)}

InputTablesOfLast == [i \in 1..Len(last'.inputs) |-> get_entity_table(last'.inputs[i])]

SomeInputEmpty ==
  \E i \in 1..Len(last'.inputs) :
    symtable[last'.inputs[i]].length + symtable[last'.inputs[i]].records_count = 0

OutputCommands == {"new", "load", "get", "find", "join", "group", "sort", "merge"}

GuardedCommands == {"save", "find", "join", "group", "sort", "apply"}

\* C1: in a session whose statements all succeeded, every bound variable
\* whose entity_table is not None names a view that exists in the store.
C1_BoundVariableNamesExistingView ==
  (Done => last.err = "") =>
    \A v \in VarNames :
      (IsBound(v) /\ symtable[v].entity_table # None)
        => Exists(views, symtable[v].entity_table)

\* C2: with debug mode off, after a successful GET from a datasource or a
\* successful FIND with output o, none of o_local, o_prefetch and
\* o_prefetch_filtered exists in the store.
C2_NoTemporaryViewAfterSuccess ==
  (Fetches /\ last.err = "" /\ ~debug_mode) =>
    \A t \in {last.output \o "_local", last.output \o "_prefetch",
              last.output \o "_prefetch_filtered"} : ~Exists(views, t)

\* C3: with debug mode off, when a GET or FIND fails with a datasource or
\* store error after it created temporary views, none of the statement's
\* temporary views exists when the error reaches the caller.
C3_TemporaryViewsCleanedOnFailure ==
  (Fetches /\ ~debug_mode /\ last.err \in {"DataSourceError", "StoreError"}
     /\ Created \cap Temps(last.output) # {}) =>
    \A t \in Temps(last.output) : ~Exists(views, t)

\* C4: a statement never creates, overwrites, renames or removes, under one
\* of its temporary names, the entity table of a variable of the session.
C4_TemporaryNamesNeverCollide ==
  Fetches =>
    \A v \in VarNames :
      IsBound(v) =>
        symtable[v].entity_table \notin
          (Created \cup Renamed \cup Removed) \cap Temps(last.output)

\* C5: in debug mode a statement never calls remove_view, and every
\* temporary view it created and did not rename away is still in the store
\* when it returns.
C5_DebugModeKeepsTemporaries ==
  (Done /\ debug_mode) =>
    /\ \A i \in DOMAIN ops : ops[i].op # "remove_view"
    /\ \A t \in (Created \cap Temps(last.output)) \ Renamed : Exists(views, t)

C5_Witness ==
  /\ Succeeded /\ debug_mode /\ last.command = "find"
  /\ \A t \in Temps(last.output) : t \in Created /\ Exists(views, t)

\* C6 as stated: every successful command with an output name returns a
\* VarStruct whose entity_table is the output name and names an existing
\* view.
C6_OutputNamesExistingView ==
  (Succeeded /\ last.command \in OutputCommands) =>
    /\ last.ret # NoVar
    /\ last.ret.entity_table = last.output
    /\ Exists(views, last.ret.entity_table)

\* C6 amended: every successful command with an output name returns a
\* VarStruct; its entity_table is the output name and names an existing
\* view, except that a FIND which extracted no view for its output returns
\* a VarStruct whose entity_table is None.
C6_OutputNamesExistingViewOrNone ==
  (Succeeded /\ last.command \in OutputCommands) =>
    /\ last.ret # NoVar
    /\ symtable[last.output] = last.ret
    /\ IF last.command = "find" /\ (last.output \o "_local") \notin Created
         THEN last.ret = EmptyVar
         ELSE /\ last.ret.entity_table = last.output
              /\ Exists(views, last.ret.entity_table)

C6_Witness ==
  /\ Succeeded /\ last.command = "find"
  /\ (last.output \o "_local") \in Created
  /\ last.ret.entity_table = last.output
  /\ Exists(views, last.output)

\* C7: a guarded command (SAVE, FIND, JOIN, GROUP, SORT, APPLY) one of whose
\* input variables has length + records_count = 0 fails with
\* EmptyInputVariable before any store operation, datasource query or
\* analytics call is issued, and produces no variable.
C7_EmptyInputGuard ==
  [][(last' # Idle /\ last'.command \in GuardedCommands
        /\ ~SomeInputUnbound /\ SomeInputEmpty) =>
       /\ last'.err = "EmptyInputVariable"
       /\ ops' = <<>>
       /\ last'.ret = NoVar
       /\ symtable' = symtable /\ views' = views /\ types' = types]_vars

C7_Witness ==
  /\ Done /\ last.command = "join" /\ last.err = "EmptyInputVariable"
  /\ symtable[last.inputs[1]].length > 0
  /\ IsBound(last.inputs[2]) /\ symtable[last.inputs[2]].length = 0

\* C8: MERGE whose input variables do not all have one entity type fails
\* with NonUniformEntityType, calls store.merge zero times and produces no
\* output variable; MERGE whose inputs share one type calls store.merge
\* exactly once, with the output name and the inputs' entity tables in
\* input order.
C8_MergeTypeUniformity ==
  [][(last' # Idle /\ last'.command = "merge" /\ ~SomeInputUnbound) =>
       IF Cardinality(InputTypes) > 1
         THEN /\ last'.err = "NonUniformEntityType"
              /\ \A i \in DOMAIN ops' : ops'[i].op # "merge"
              /\ last'.ret = NoVar
              /\ symtable' = symtable
         ELSE /\ Len(ops') = 1
              /\ ops'[1].op = "merge"
              /\ ops'[1].view = last'.output
              /\ ops'[1].args = InputTablesOfLast]_vars

C8_Witness ==
  /\ Done /\ last.command = "merge" /\ last.err = "NonUniformEntityType"
  /\ Len(last.inputs) = 2 /\ ops = <<>>

\* C9: a command one of whose input names is not bound in the symbol table
\* fails with VariableNotExist, issues no store mutation and binds no
\* variable.
C9_UnboundInput ==
  [][(last' # Idle /\ SomeInputUnbound) =>
       /\ last'.err = "VariableNotExist"
       /\ ops' = <<>>
       /\ last'.ret = NoVar
       /\ symtable' = symtable /\ views' = views /\ types' = types]_vars

C9_Witness ==
  /\ Done /\ last.command = "disp" /\ last.err = "VariableNotExist"
  /\ ~IsBound(last.inputs[1]) /\ ops = <<>>

\* C10 as stated: a GET with neither a datasource nor a variablesource
\* fails with KestrelInternalError, having issued no datasource query and
\* no store mutation.
C10_GetWithoutSource ==
  (Done /\ last.command = "get" /\ last.source = "none") =>
    /\ last.err = "KestrelInternalError"
    /\ ops = <<>>

\* C10 amended: a GET with neither a datasource nor a variablesource fails
\* with KestrelInternalError, or with InvalidAttribute raised by the
\* compilation of its pattern, which comes first; either way it has issued
\* no datasource query and no store mutation and binds no variable.
C10_GetWithoutSourceFails ==
  (Done /\ last.command = "get" /\ last.source = "none") =>
    /\ last.err \in {"KestrelInternalError", "InvalidAttribute"}
    /\ ops = <<>>
    /\ last.ret = NoVar

C10_Witness ==
  /\ Done /\ last.command = "get" /\ last.source = "none"
  /\ last.err = "KestrelInternalError" /\ ops = <<>>

\* the calls of an internal helper the statement made, as logged in calls
CallsOf(fn, at) ==
  {calls[i] : i \in {j \in DOMAIN calls : calls[j].fn = fn /\ calls[j].at = at}}

\* the pattern bodies the statement asked build_pattern for, by label
Built(body) == {r \in CallsOf("build_pattern", "call") : r.arg = body}

OpsOf(op) == {ops[i] : i \in {j \in DOMAIN ops : ops[j].op = op}}

\* the final local pattern of a FIND was None: the raw relation pattern was
\* compiled to nothing (or was invalid) and no event pattern was built
FinalLocalPatternNone ==
  /\ last.command = "find"
  /\ \E r \in Built("raw") : r.val \in {None, "invalid"}
  /\ \A r \in Built("event_out") : r.val # "event"

\* C11: a FIND with a non-empty input and a return type the store knows
\* whose final local pattern (raw relation pattern OR event pattern) is None
\* completes without raising, returns a variable with entity_table None,
\* and issues no extract of o_local, no prefetch, no merge and no rename.
C11_FindWithoutLocalPattern ==
  FinalLocalPatternNone =>
    /\ last.err = ""
    /\ last.ret = EmptyVar
    /\ \A r \in OpsOf("extract") : r.view # last.output \o "_local"
    /\ CallsOf("_prefetch", "call") = {}
    /\ OpsOf("merge") = {}
    /\ OpsOf("rename_view") = {}

\* a FIND that built its event-in pattern, found no event-out pattern and no
\* raw pattern, and returned
C11_Witness ==
  /\ FinalLocalPatternNone
  /\ Built("event_in") # {}
  /\ \E r \in OpsOf("extract") : r.view = last.output \o "_asso_event"
  /\ last.err = ""

\* the statement that returns in the next state is a FIND from a bound,
\* non-empty variable for a return type the store does not have
FindOfUnknownType ==
  /\ last'.command = "find"
  /\ IsBound(last'.inputs[1])
  /\ ~SomeInputEmpty
  /\ last'.type \notin types

\* C12: a FIND with a non-empty input whose return type is not in
\* store.types() returns a variable with entity_table None and performs no
\* pattern compilation, no store mutation and no datasource query.
C12_FindUnknownReturnType ==
  [][FindOfUnknownType =>
       /\ last'.err = ""
       /\ last'.ret = EmptyVar
       /\ calls' = <<>>
       /\ ops' = <<>>
       /\ views' = views
       /\ types' = types]_vars

\* a FIND for a type the store lacks, from a variable with rows, returned
\* and bound its output to the empty variable
C12_Witness ==
  /\ last.command = "find"
  /\ last.err = ""
  /\ last.type \notin types
  /\ symtable[last.inputs[1]].length > 0
  /\ last.output # last.inputs[1]
  /\ symtable[last.output] = EmptyVar
  /\ calls = <<>>

\* the statement that returns in the next state is a DISP of a bound
\* variable whose entity_table is None
DispOfEmptyVariable ==
  /\ last'.command = "disp"
  /\ IsBound(last'.inputs[1])
  /\ symtable[last'.inputs[1]].entity_table = None

\* C13: DISP of a bound variable whose entity_table is None returns an
\* empty table display without raising and without calling store.lookup.
C13_DispEmptyVariable ==
  [][DispOfEmptyVariable =>
       /\ last'.err = ""
       /\ last'.display = DisplayDataframe(None, 0)
       /\ ops' = <<>>]_vars

\* a DISP of a variable bound to the empty variable has returned its display
C13_Witness ==
  /\ last.command = "disp"
  /\ symtable[last.inputs[1]] = EmptyVar
  /\ last.display.kind = "dataframe"
  /\ last.display.rows = 0
  /\ last.err = ""

\* C14: executing DISP v twice in a row, with nothing executed in between,
\* returns two equal displays, and a DISP changes neither the store nor the
\* symbol table.
C14_DispTwice ==
  [][last'.command = "disp" =>
       /\ views' = views
       /\ types' = types
       /\ symtable' = symtable
       /\ (prev.input = last'.inputs[1] /\ prev.display.kind # None
              /\ last'.err = "")
            => last'.display = prev.display]_vars

\* the second of two DISPs of a variable with rows returned the display the
\* first one returned
C14_Witness ==
  /\ last.command = "disp"
  /\ last.err = ""
  /\ prev.input = last.inputs[1]
  /\ prev.display = last.display
  /\ last.display.rows > 0
  /\ nstmts = 2

\* the values the rows of x have at path p
ValuesAt(p) == {data.x[i][p] : i \in DOMAIN data.x}

\* C15: g = GROUP x BY p followed by DISP g displays exactly one row per
\* distinct value of p among the rows of x, for a direct attribute and for
\* a reference attribute.
C15_GroupDisplaysDistinctValues ==
  (data.pc = "displayed" /\ Len(data.paths) = 1) =>
    /\ Len(data.display) = Cardinality(ValuesAt(data.paths[1]))
    /\ \A v \in ValuesAt(data.paths[1]) :
         \E k \in DOMAIN data.display : data.display[k][1] = v

\* three rows with two distinct values of dst_ref.value gave two rows
C15_Witness ==
  /\ data.pc = "displayed"
  /\ data.paths = <<"dst_ref.value">>
  /\ Len(data.x) = 3
  /\ Cardinality(ValuesAt("dst_ref.value")) = 2
  /\ Cardinality(ValuesAt("name")) = 2
  /\ Len(data.display) = 2

\* the column name of an aggregation as written
ColumnOf(w) == IF w.alias # None THEN w.alias ELSE w.func \o "_" \o w.attr

\* C16: for GROUP x BY paths WITH aggregations the result view has exactly
\* one column per grouping path and one per aggregation, the aggregation
\* column named by its alias when one is given and func_attr otherwise, and
\* the executor passes each aggregation to the store as (func, attr, alias)
\* in statement order.
C16_GroupColumns ==
  data.pc \in {"grouped", "displayed"} =>
    /\ Len(data.g.columns) = Len(data.paths) + Len(data.written)
    /\ \A j \in DOMAIN data.paths : data.g.columns[j] = data.paths[j]
    /\ \A i \in DOMAIN data.written :
         /\ data.g.columns[Len(data.paths) + i] = ColumnOf(data.written[i])
         /\ data.query.aggs[i] = <<data.written[i].func, data.written[i].attr,
                                   ColumnOf(data.written[i])>>
    /\ Len(data.query.aggs) = Len(data.written)

\* a GROUP by two paths with one aggregation under its default name and one
\* under a given alias
C16_Witness ==
  /\ data.pc = "grouped"
  /\ Len(data.paths) = 2
  /\ Len(data.written) = 2
  /\ data.written[1].alias = None
  /\ data.written[2].alias = "total"
  /\ data.g.columns = <<"name", "dst_ref.value", "sum_number_observed", "total">>

\* C17: neither GET nor FIND runs prefetch on a local variable whose
\* data_source is None, and no prefetch datasource query is ever issued
\* with a None datasource.
C17_NoPrefetchWithoutDataSource ==
  /\ \A r \in CallsOf("_prefetch", "call") : r.arg # None
  /\ \A q \in OpsOf("query") : q.args[1] # None

\* a FIND with prefetch enabled extracted rows from a variable that has no
\* data source, and made its output without calling prefetch
C17_Witness ==
  /\ last.command = "find"
  /\ last.err = ""
  /\ config.prefetch_find
  /\ last.output # last.inputs[1]
  /\ symtable[last.inputs[1]].data_source = None
  /\ last.ret.length > 0
  /\ CallsOf("_prefetch", "call") = {}
  /\ last.output \o "_local" \in Renamed

\* prefetch was not run by the statement, or it returned None
NoPrefetchedView ==
  \A r \in CallsOf("_prefetch", "return") : r.val = None

\* the statement extracted its local view o_local
LocalExtracted ==
  \E r \in OpsOf("extract") : r.ok /\ r.view = last.output \o "_local"

\* C18: in GET from a datasource and in FIND the view o is produced by
\* store.merge only when prefetch was run and returned a view; whenever
\* prefetch was not run or returned None, for every return type, process
\* included, store.merge is not called and o is produced by renaming o_local
\* to o.
C18_MergeOnlyAfterPrefetch ==
  Fetches =>
    /\ OpsOf("merge") # {} =>
         \E r \in CallsOf("_prefetch", "return") : r.val # None
    /\ NoPrefetchedView =>
         /\ OpsOf("merge") = {}
         /\ (Succeeded /\ LocalExtracted) =>
              \E r \in OpsOf("rename_view") :
                /\ r.ok
                /\ r.args = <<last.output \o "_local">>
                /\ r.view = last.output

\* a GET of processes from a source without process ids whose prefetch
\* returned None: the filtering was asked, nothing was merged, and o_local
\* was renamed
C18_Witness ==
  /\ last.command = "get"
  /\ last.type = "process"
  /\ Succeeded
  /\ \E r \in CallsOf("_prefetch", "return") : r.val = None
  /\ \E r \in CallsOf("_filter_prefetched_process", "call") : r.arg = None
  /\ OpsOf("merge") = {}
  /\ last.output \o "_local" \in Renamed

\* C19: prefetch returns None whenever any of its steps produced empty (the
\* identical-entity pattern body is empty, the remote pattern is None, the
\* query loaded no rows, or the extracted view has no rows) and returns the
\* view name only when the extracted view is non-empty; when the remote
\* pattern is None no datasource query is issued and no view is created.
C19_PrefetchReturnsNoneOnEmpty ==
  /\ \A r \in CallsOf("_prefetch", "return") : r.val # None => r.rows > 0
  /\ (\A b \in Built("remote") : b.val = None) =>
       /\ \A q \in OpsOf("query") : q.args[2] # "remote"
       /\ \A r \in OpsOf("extract") : r.view # last.output \o "_prefetch"

\* the statement fetched processes and the identity attribute of its local
\* view is not id
ProcessWithoutId ==
  /\ Fetches
  /\ last.type = "process"
  /\ \E r \in CallsOf("get_entity_id_attribute", "call") : r.val # "id"

\* C20: in GET and FIND, when the return type is process and the identity
\* attribute of the local view is not id, the unfiltered o_prefetch is never
\* an input of the merge that produces o: the merge inputs are exactly
\* o_local and o_prefetch_filtered, and when no prefetched row survives the
\* filtering no merge happens and o is o_local renamed.
C20_MergeOfFilteredProcesses ==
  ProcessWithoutId =>
    /\ \A m \in OpsOf("merge") :
         /\ m.view = last.output
         /\ m.args = <<last.output \o "_local",
                       last.output \o "_prefetch_filtered">>
    /\ (\E r \in CallsOf("_filter_prefetched_process", "return") :
          r.val = None) =>
         /\ OpsOf("merge") = {}
         /\ Succeeded =>
              \E r \in OpsOf("rename_view") :
                /\ r.ok
                /\ r.args = <<last.output \o "_local">>
                /\ r.view = last.output

\* a FIND of processes on a source without process ids prefetched rows,
\* filtered them and merged o_local with o_prefetch_filtered
C20_Witness ==
  /\ ProcessWithoutId
  /\ Succeeded
  /\ last.command = "find"
  /\ \E r \in CallsOf("_prefetch", "return") :
       r.val = last.output \o "_prefetch" /\ r.rows > 0
  /\ \E m \in OpsOf("merge") :
       m.ok /\ m.args = <<last.output \o "_local",
                          last.output \o "_prefetch_filtered">>

\* C21: with debug mode off, after every FIND that completes successfully
\* the view o_asso_event does not exist in the store, including when the
\* event-flow branch raised InvalidAttribute after the event view was
\* extracted.
C21_EventViewRemoved ==
  (~debug_mode /\ last.command = "find" /\ Succeeded) =>
    ~Exists(views, last.output \o "_asso_event")

\* a step of the event-flow branch of the FIND raised InvalidAttribute
EventFlowRaised ==
  /\ last.command = "find"
  /\ \E r \in Built("event_in") \cup Built("event_out") : r.val = "invalid"

\* the local extracts of the statement: those of o_local
LocalExtracts ==
  {r \in OpsOf("extract") : r.view = last.output \o "_local"}

\* C22: when a step of FIND's optional event-flow branch raises
\* InvalidAttribute, FIND does not fail: the event pattern is None, the final
\* local pattern is the raw relation pattern alone, and FIND continues with
\* extract, prefetch and merge or rename as if the branch had not been
\* attempted.
C22_EventFlowInvalidAttribute ==
  EventFlowRaised =>
    /\ last.err # "InvalidAttribute"
    /\ Built("raw") # {}
    /\ \A r \in LocalExtracts : r.args = <<last.type, None, "raw">>
    /\ (\E b \in Built("raw") : b.val = "raw") => LocalExtracts # {}
    /\ (\E b \in Built("raw") : b.val # "raw") =>
         LocalExtracts = {} /\ Succeeded /\ last.ret = EmptyVar
    /\ (Succeeded /\ LocalExtracts # {}) =>
         \/ \E r \in OpsOf("merge") : r.ok /\ r.view = last.output
         \/ \E r \in OpsOf("rename_view") : r.ok /\ r.view = last.output

\* a FIND whose event-out pattern raised InvalidAttribute extracted o_local
\* by the raw pattern, prefetched and merged
C22_Witness ==
  /\ EventFlowRaised
  /\ \E r \in Built("event_out") : r.val = "invalid"
  /\ Succeeded
  /\ LocalExtracts # {}
  /\ CallsOf("_prefetch", "return") # {}
  /\ \E r \in OpsOf("merge") : r.ok /\ r.view = last.output

\* the indirect columns of the header, and the entries of the Indirect
\* Attributes list
IndirectColumns ==
  {data.header[i] : i \in {j \in DOMAIN data.header :
                             \/ contains(data.header[j], "_ref.")
                             \/ contains(data.header[j], "_ref_")}}
    \ {c \in Columns : startswith(c, "x_") \/ endswith(c, "_ref")
                         \/ endswith(c, "_refs") \/ endswith(c, "_reference")
                         \/ endswith(c, "_references")}

EntryColumns(k) == {data.disp.associ[k][i] : i \in DOMAIN data.disp.associ[k]}

\* C23: INFO groups the indirect attributes by their left-of-last-dot
\* prefix: for every column order returned by store.columns, each distinct
\* prefix yields exactly one entry of the Indirect Attributes list, holding
\* all indirect columns with that prefix.
C23_IndirectGroupedByPrefix ==
  data.pc = "shown" =>
    \A c \in IndirectColumns :
      /\ Cardinality({k \in DOMAIN data.disp.associ :
                        \E d \in EntryColumns(k) :
                          rsplit_dot(d) = rsplit_dot(c)}) = 1
      /\ \A k \in DOMAIN data.disp.associ :
           c \in EntryColumns(k) =>
             EntryColumns(k) = {d \in IndirectColumns :
                                  rsplit_dot(d) = rsplit_dot(c)}

\* the display fields a column appears in
FieldsOf(c) ==
  {f \in {"direct", "associ", "custom"} :
     \/ f = "direct" /\ \E i \in DOMAIN data.disp.direct : data.disp.direct[i] = c
     \/ f = "custom" /\ \E i \in DOMAIN data.disp.custom : data.disp.custom[i] = c
     \/ f = "associ" /\ \E k \in DOMAIN data.disp.associ : c \in EntryColumns(k)}

IsReferenceColumn(c) ==
  \/ endswith(c, "_ref")
  \/ endswith(c, "_refs")
  \/ endswith(c, "_reference")
  \/ endswith(c, "_references")

\* C24: INFO hides reference columns: a column whose name ends with _ref,
\* _refs, _reference or _references appears in none of the fields Entity
\* Attributes, Indirect Attributes and Customized Attributes, and every
\* other column appears in exactly one of them.
C24_ReferenceColumnsHidden ==
  data.pc = "shown" =>
    \A i \in DOMAIN data.header :
      IF IsReferenceColumn(data.header[i])
        THEN FieldsOf(data.header[i]) = {}
        ELSE Cardinality(FieldsOf(data.header[i])) = 1

\* the nodes without in-edges and the nodes without out-edges
NoInEdges == {n \in data.g.nodes : in_degree(data.g, n) = 0}

NoOutEdges == {n \in data.g.nodes : out_degree(data.g, n) = 0}

\* C25: for DISP _ with execution tracking, over every tracking graph, the
\* root set used is exactly the nodes with in-degree 0, the leaf set used is
\* exactly the nodes with out-degree 0 (a node with neither in-edges nor
\* out-edges is both), and the displayed path list is exactly the simple
\* paths from each root to each leaf, each listed once.
C25_TrackingRootsLeavesPaths ==
  data.pc = "html" =>
    /\ data.roots = NoInEdges
    /\ data.leaves = NoOutEdges
    /\ DOMAIN data.allpaths =
         UNION {all_simple_paths(data.g, rl[1], rl[2]) :
                  rl \in NoInEdges \X NoOutEdges}
    /\ \A p \in DOMAIN data.allpaths : data.allpaths[p] = 1

TerminalCommands == {"save", "info", "disp", "apply"}

StoreMutations == {"extract", "merge", "filter", "rename_view", "remove_view",
                   "assign", "assign_query", "join"}

\* C26: SAVE, INFO, DISP and APPLY return no VarStruct (the default-output
\* wrapper creates none for APPLY or SAVE) and issue no store mutation
\* (extract, merge, filter, rename_view, remove_view, assign, assign_query,
\* join): the set of store views and the symbol table are unchanged.
C26_TerminalCommandsMutateNothing ==
  [][(last = Idle /\ last'.command \in TerminalCommands) =>
       /\ last'.ret = NoVar
       /\ \A i \in DOMAIN ops' : ops'[i].op \notin StoreMutations
       /\ views' = views
       /\ symtable' = symtable]_vars

\* an APPLY over a bound, non-empty variable has run the workflow and
\* returned
C26_Witness ==
  /\ last.command = "apply"
  /\ Succeeded
  /\ \E r \in OpsOf("execute") : r.ok
  /\ \A i \in DOMAIN last.inputs : symtable[last.inputs[i]].length > 0
  /\ last.ret = NoVar

\* C27: no executor calls store.extract with both query_id and pattern None:
\* in GET, FIND (the local extract and the event-flow extract of
\* o_asso_event), prefetch and process filtering, every extract has a
\* non-None query_id or a non-None pattern.
C27_ExtractNeverBothNone ==
  \A r \in OpsOf("extract") : r.args[2] # None \/ r.args[3] # None

\* C28: MERGE, and GET from a variable source, never pass a None entity
\* table to the store: when an input variable is empty (its entity_table is
\* None, e.g. the result of a FIND without a match), store.merge and
\* store.filter are not called with None as a source view.
C28_NoNoneSourceView ==
  /\ \A r \in OpsOf("merge") : \A i \in DOMAIN r.args : r.args[i] # None
  /\ \A r \in OpsOf("filter") : r.args[2] # None

=============================================================================
